---------------------------- MODULE Spec2Model ----------------------------
(***************************************************************************)
(* Model of the mechbay binary-record codec: mechbay/data.py               *)
(* (GundamDataFile) and mechbay/tbl.py (StringTBL, StageVoiceTable).       *)
(*                                                                         *)
(* Python values are modelled as follows.                                  *)
(*   bytes        sequence of 0..255                                       *)
(*   str          sequence of Unicode code points                          *)
(*   call result  [err |-> "", val |-> v] on return,                       *)
(*                [err |-> "<ExceptionName>", val |-> <<>>] on raise       *)
(*   record value [t |-> "int"|"str"|"none", n |-> Int, s |-> str]         *)
(***************************************************************************)
EXTENDS Integers, Sequences, FiniteSets, TLC

VARIABLES
    pc,          \* "idle", "ret" (a call returned or raised), "fields", "null_term"
    op,          \* name of the method that ran last
    arg,         \* the arguments of the call
    ret,         \* the result of the call
    header,      \* self.header
    start_pos,   \* self._start_pos
    buffer,      \* the bytes behind the BinaryIO
    pos,         \* buffer.tell()
    definition,  \* read_record: the schema, a sequence of <<field, field_type>>
    fi,          \* read_record: number of schema fields already dispatched
    record,      \* read_record: the dict built so far
    all_bytes,   \* read_string_null_term: local all_bytes
    char         \* read_string_null_term: local char ("unset" before the first read)

vars == <<pc, op, arg, ret, header, start_pos, buffer, pos, definition, fi,
          record, all_bytes, char>>

-----------------------------------------------------------------------------
(* Bounds of the model *)

MaxStrLen == 2
MaxRecords == 2
MaxFields == 2
MaxBuf == 3
MaxParts == 5

-----------------------------------------------------------------------------
(* Call results *)

Ok(v) == [err |-> "", val |-> v]
Raise(e) == [err |-> e, val |-> <<>>]

IntV(n) == [t |-> "int", n |-> n, s |-> <<>>]
StrV(s) == [t |-> "str", n |-> 0, s |-> s]
NoneV == [t |-> "none", n |-> 0, s |-> <<>>]

Min(a, b) == IF a < b THEN a ELSE b

Repeat(c, n) == [i \in 1..n |-> c]

Zeros(n) == Repeat(0, n)

(* sequences over S of length at most n *)
SeqsUpTo(S, n) == UNION {[1..k -> S] : k \in 0..n}

(* s[a:b] of Python, 0-based, clipped to the sequence *)
Slice(s, a, b) == SubSeq(s, Min(a, Len(s)) + 1, Min(b, Len(s)))

-----------------------------------------------------------------------------
(* str.encode("utf-8") and bytes.decode("utf-8") *)

Utf8Char(c) ==
    IF c < 128 THEN <<c>>
    ELSE IF c < 2048 THEN <<192 + (c \div 64), 128 + (c % 64)>>
    ELSE IF c < 65536
         THEN <<224 + (c \div 4096), 128 + ((c \div 64) % 64), 128 + (c % 64)>>
    ELSE <<240 + (c \div 262144), 128 + ((c \div 4096) % 64),
           128 + ((c \div 64) % 64), 128 + (c % 64)>>

(* the encodings of the characters, concatenated (by halves) *)
RECURSIVE Utf8Encode(_)
Utf8Encode(s) ==
    IF s = <<>> THEN <<>>
    ELSE IF Len(s) = 1 THEN Utf8Char(s[1])
    ELSE LET h == Len(s) \div 2
         IN  Utf8Encode(SubSeq(s, 1, h)) \o Utf8Encode(SubSeq(s, h + 1, Len(s)))

IsCont(b) == b >= 128 /\ b <= 191

(* number of bytes of the character that the lead byte c begins, 0 when c  *)
(* begins none                                                             *)
Utf8Width(c) ==
    IF c < 128 THEN 1
    ELSE IF c >= 194 /\ c <= 223 THEN 2
    ELSE IF c >= 224 /\ c <= 239 THEN 3
    ELSE IF c >= 240 /\ c <= 244 THEN 4
    ELSE 0

(* a well-formed character begins at b[i] and the next one right after it *)
Utf8CharAt(b, i) ==
    LET c == b[i]
        k == Utf8Width(c)
    IN  /\ k > 0
        /\ i + k - 1 <= Len(b)
        /\ \A j \in 1..(k - 1) : IsCont(b[i + j])
        /\ i + k <= Len(b) => ~IsCont(b[i + k])
        /\ c = 224 => b[i + 1] >= 160
        /\ c = 237 => b[i + 1] <= 159
        /\ c = 240 => b[i + 1] >= 144
        /\ c = 244 => b[i + 1] <= 143

(* the code point of the well-formed character at b[i] *)
Utf8CodePoint(b, i) ==
    LET c == b[i]
    IN  IF c < 128 THEN c
        ELSE IF c <= 223 THEN (c - 192) * 64 + (b[i + 1] - 128)
        ELSE IF c <= 239
             THEN (c - 224) * 4096 + (b[i + 1] - 128) * 64 + (b[i + 2] - 128)
        ELSE (c - 240) * 262144 + (b[i + 1] - 128) * 4096
                 + (b[i + 2] - 128) * 64 + (b[i + 3] - 128)

(* b.decode("utf-8"): the characters at the lead bytes of b, in order *)
Utf8Decode(b) ==
    LET leads == {i \in 1..Len(b) : ~IsCont(b[i])}
        nth(j) == CHOOSE i \in leads : Cardinality({k \in leads : k <= i}) = j
    IN  IF (Len(b) > 0 /\ IsCont(b[1])) \/ \E i \in leads : ~Utf8CharAt(b, i)
        THEN Raise("UnicodeDecodeError")
        ELSE Ok([j \in 1..Cardinality(leads) |-> Utf8CodePoint(b, nth(j))])

-----------------------------------------------------------------------------
(* int.from_bytes(.., "little") and int.to_bytes(.., "little") *)

RECURSIVE FromBytesLE(_)
FromBytesLE(b) == IF b = <<>> THEN 0 ELSE b[1] + 256 * FromBytesLE(Tail(b))

RECURSIVE FromBytesLESigned(_)
FromBytesLESigned(b) ==
    IF b = <<>> THEN 0
    ELSE IF Len(b) = 1 THEN (IF b[1] >= 128 THEN b[1] - 256 ELSE b[1])
    ELSE b[1] + 256 * FromBytesLESigned(Tail(b))

RECURSIVE ToBytesLE(_, _)
ToBytesLE(v, n) == IF n = 0 THEN <<>> ELSE <<v % 256>> \o ToBytesLE(v \div 256, n - 1)

RECURSIVE ShiftRight(_, _)
ShiftRight(v, n) == IF n = 0 THEN v ELSE ShiftRight(v \div 256, n - 1)

(* value.to_bytes(length, byteorder="little", signed=signed) *)
to_bytes(value, length, signed) ==
    LET q == ShiftRight(value, length)
        b == ToBytesLE(value, length)
        top == IF length = 0 THEN 0 ELSE b[length]
        fits == IF signed
                THEN \/ value >= 0 /\ q = 0 /\ top < 128
                     \/ value < 0 /\ q = -1 /\ top >= 128
                ELSE value >= 0 /\ q = 0
    IN  IF fits THEN Ok(b) ELSE Raise("OverflowError")

(* GundamDataFile.read_int *)
read_int(byte_string, signed) ==
    IF signed THEN FromBytesLESigned(byte_string) ELSE FromBytesLE(byte_string)

(* GundamDataFile.write_int; value is a record value *)
write_int(value, length, signed) ==
    IF value.t # "int" THEN Raise("AttributeError")
    ELSE to_bytes(value.n, length, signed)

(* buffer.read(n) at position p: the bytes read, possibly fewer than n *)
Read(buf, p, n) == Slice(buf, p, p + n)
Tell(buf, p, n) == IF p >= Len(buf) THEN p ELSE Min(p + n, Len(buf))


OkAt(v, p) == [err |-> "", val |-> v, pos |-> p]
RaiseAt(e, p) == [err |-> e, val |-> <<>>, pos |-> p]

-----------------------------------------------------------------------------
(* Formatting and parsing of decimal numbers *)

RECURSIVE Digits(_)
Digits(n) == IF n < 10 THEN <<48 + n>> ELSE Append(Digits(n \div 10), 48 + (n % 10))

(* Format without the zero padding *)
FormatNoPad(n, w) == Digits(n)

(* f"{n:0w}" for n >= 0: at least w digits, zero padded *)
Format(n, w) == LET d == Digits(n) IN Repeat(48, w - Len(d)) \o d

IsDigit(c) == c >= 48 /\ c <= 57

RECURSIVE DigitsValue(_)
DigitsValue(s) ==
    IF s = <<>> THEN 0 ELSE 10 * DigitsValue(SubSeq(s, 1, Len(s) - 1)) + (s[Len(s)] - 48)

(* int(s) for a str s: an optional sign and at least one decimal digit.  The *)
(* model's alphabets hold no white space and no underscore, which int() also *)
(* accepts in places.                                                        *)
PyInt(s) ==
    LET signed == s # <<>> /\ s[1] \in {43, 45}
        d == IF signed THEN Tail(s) ELSE s
    IN  IF d = <<>> \/ \E i \in 1..Len(d) : ~IsDigit(d[i]) THEN Raise("ValueError")
        ELSE IF signed /\ s[1] = 45 THEN Ok(0 - DigitsValue(d))
        ELSE Ok(DigitsValue(d))

-----------------------------------------------------------------------------
(* data.py: series ID and unit GUID *)

read_series_bytes(byte_string) ==
    LET num == FromBytesLE(Slice(byte_string, 0, 2))
        g == FromBytesLE(Slice(byte_string, 2, Len(byte_string)))
    IN  <<g>> \o Format(num, 4)

write_series_bytes(series_string) ==
    IF series_string.t # "str" THEN Raise("TypeError")
    ELSE LET s == series_string.s
             num == PyInt(Slice(s, 1, Len(s)))
             b1 == IF num.err # "" THEN num ELSE to_bytes(num.val, 2, FALSE)
             b2 == IF s = <<>> THEN Raise("IndexError") ELSE to_bytes(s[1], 2, FALSE)
         IN  IF b1.err # "" THEN b1
             ELSE IF b2.err # "" THEN b2
             ELSE Ok(b1.val \o b2.val)

read_guid_bytes(byte_string) ==
    IF byte_string = Zeros(8) THEN Ok(NoneV)
    ELSE IF Len(byte_string) < 6 THEN Raise("IndexError")
    ELSE LET series == FromBytesLE(Slice(byte_string, 0, 2))
             gundam == byte_string[3]
             unit_type == byte_string[5]
             spec == byte_string[6]
             model == FromBytesLE(Slice(byte_string, 6, 8))
         IN  Ok(StrV(<<gundam>> \o Format(series, 4) \o <<unit_type>>
                      \o Format(model, 3) \o Format(spec, 2)))

write_guid_bytes(unit_string) ==
    IF unit_string.t = "none" \/ (unit_string.t = "str" /\ unit_string.s = <<>>)
       \/ (unit_string.t = "int" /\ unit_string.n = 0)
    THEN Ok(Zeros(8))
    ELSE IF unit_string.t # "str" THEN Raise("TypeError")
    ELSE LET s == unit_string.s
             i1 == PyInt(Slice(s, 1, 5))
             b1 == IF i1.err # "" THEN i1 ELSE to_bytes(i1.val, 2, FALSE)
             b2 == Ok(Utf8Char(s[1]))
             b4 == IF Len(s) < 6 THEN Raise("IndexError") ELSE Ok(Utf8Char(s[6]))
             i5 == PyInt(Slice(s, 9, 11))
             b5 == IF i5.err # "" THEN i5 ELSE to_bytes(i5.val, 1, FALSE)
             i6 == PyInt(Slice(s, 6, 9))
             b6 == IF i6.err # "" THEN i6 ELSE to_bytes(i6.val, 2, FALSE)
         IN  IF b1.err # "" THEN b1
             ELSE IF b4.err # "" THEN b4
             ELSE IF b5.err # "" THEN b5
             ELSE IF b6.err # "" THEN b6
             ELSE Ok(b1.val \o b2.val \o <<0>> \o b4.val \o b5.val \o b6.val)

-----------------------------------------------------------------------------
(* data.py: strings *)

write_string_null_term(string) ==
    IF string.t # "str" THEN Raise("AttributeError")
    ELSE Ok(Utf8Encode(string.s) \o <<0>>)

read_string_length(buf, p) ==
    LET length == read_int(Read(buf, p, 1), FALSE)
        p1 == Tell(buf, p, 1)
        output_string == Utf8Decode(Read(buf, p1, length))
        p2 == Tell(buf, p1, length)
    IN  IF output_string.err # "" THEN RaiseAt(output_string.err, p2)
        ELSE OkAt(output_string.val, p2)

write_string_length(string) ==
    IF string.t # "str" THEN Raise("TypeError")
    ELSE LET lb == to_bytes(Len(string.s), 1, FALSE)
         IN  IF lb.err # "" THEN lb ELSE Ok(lb.val \o Utf8Encode(string.s))

-----------------------------------------------------------------------------
(* data.py: file framing *)

record_count_length == 4

(* read_header: val is the record count, start is the new self._start_pos *)
read_header(hdr, buf, p) ==
    LET h == Read(buf, p, Len(hdr))
        p1 == Tell(buf, p, Len(hdr))
        record_count == read_int(Read(buf, p1, record_count_length), FALSE)
        p2 == Tell(buf, p1, record_count_length)
    IN  IF h # hdr THEN RaiseAt("AssertionError", p1) ELSE OkAt(record_count, p2)

-----------------------------------------------------------------------------
(* tbl.py: StringTBL *)

StringTBL_header == <<0, 0, 0, 0, 0, 1, 1, 0>>
StageVoiceTable_header == <<84, 82, 84, 83, 0, 1, 1, 0>>

(* Padding with the subtraction from the row size left out *)
PaddingByRemainder(record_count) == (12 + (record_count * 8)) % 16

(* _write: padding = 16 - (string_start % 16) with string_start = 12 + count * 8 *)
Padding(record_count) == 16 - ((12 + (record_count * 8)) % 16)

(* NextStringStart counting characters instead of UTF-8 bytes *)
NextStringStartChars(string_start, string) == string_start + Len(string) + 1

(* _write: string_start += len(record["string"].encode("utf-8")) + 1 *)
NextStringStart(string_start, string) == string_start + Len(Utf8Encode(string)) + 1

(* _write, first loop: the index entries, string_start being the running pointer *)
RECURSIVE IndexEntries(_, _)
IndexEntries(records, string_start) ==
    IF records = <<>> THEN Ok(<<>>)
    ELSE LET r == Head(records)
             ib == to_bytes(r.index, 4, FALSE)
             pb == to_bytes(string_start, 4, FALSE)
             rest == IndexEntries(Tail(records), NextStringStart(string_start, r.string))
         IN  IF ib.err # "" THEN ib
             ELSE IF pb.err # "" THEN pb
             ELSE IF rest.err # "" THEN rest
             ELSE Ok(ib.val \o pb.val \o rest.val)

(* _write, second loop: the string blob *)
RECURSIVE StringBlob(_)
StringBlob(records) ==
    IF records = <<>> THEN <<>>
    ELSE Utf8Encode(Head(records).string) \o <<0>> \o StringBlob(Tail(records))

StringTBL_write(hdr, records) ==
    LET record_count == Len(records)
        cb == to_bytes(record_count, 4, FALSE)
        padding == Padding(record_count)
        string_start == 12 + (record_count * 8) + padding
        entries == IndexEntries(records, string_start)
    IN  IF entries.err # "" THEN entries
        ELSE Ok(hdr \o cb.val \o entries.val \o Zeros(padding) \o StringBlob(records))

(* _read, first loop: entries i .. record_count - 1, read from position p *)
RECURSIVE ReadEntries(_, _, _, _)
ReadEntries(buf, p, i, record_count) ==
    IF i >= record_count THEN <<>>
    ELSE <<[order |-> i,
            index |-> FromBytesLE(Read(buf, p, 4)),
            pointer |-> FromBytesLE(Read(buf, Tell(buf, p, 4), 4))]>>
         \o ReadEntries(buf, Tell(buf, Tell(buf, p, 4), 4), i + 1, record_count)

(* _read calls self.read_string, an attribute that no class of data.py or   *)
(* tbl.py defines: the attribute lookup raises AttributeError.              *)
read_string(buf, pointer) == Raise("AttributeError")

(* _read, second loop *)
RECURSIVE ReadStrings(_, _)
ReadStrings(records, buf) ==
    IF records = <<>> THEN Ok(<<>>)
    ELSE LET r == Head(records)
             s == read_string(buf, r.pointer)
             rest == ReadStrings(Tail(records), buf)
         IN  IF s.err # "" THEN s
             ELSE IF rest.err # "" THEN rest
             ELSE Ok(<<[order |-> r.order, index |-> r.index,
                        pointer |-> r.pointer, string |-> s.val]>> \o rest.val)

(* StringTBL._read on a buffer positioned at 0 *)
StringTBL_read(hdr, buf) ==
    LET h == read_header(hdr, buf, 0)
    IN  IF h.err # "" THEN Raise(h.err)
        ELSE ReadStrings(ReadEntries(buf, h.pos, 0, h.val), buf)

-----------------------------------------------------------------------------
(* tbl.py: StageVoiceTable *)

(* str.split(","): the parts of s between the separators *)
RECURSIVE SplitFrom(_, _, _, _)
SplitFrom(s, i, cur, acc) ==
    IF i > Len(s) THEN Append(acc, cur)
    ELSE IF s[i] = 44 THEN SplitFrom(s, i + 1, <<>>, Append(acc, cur))
    ELSE SplitFrom(s, i + 1, Append(cur, s[i]), acc)

Split(s) == SplitFrom(s, 1, <<>>, <<>>)

(* body of the loop of StageVoiceTable._read for one record: the four keys it adds *)
StageVoiceUnpack(string) ==
    LET unpack == Split(string)
        item(k) == IF Len(unpack) < k + 1 THEN Raise("IndexError") ELSE PyInt(unpack[k + 1])
        val1 == item(1)
        val2 == item(2)
        val3 == item(3)
    IN  IF val1.err # "" THEN val1
        ELSE IF val2.err # "" THEN val2
        ELSE IF val3.err # "" THEN val3
        ELSE Ok([voice_id |-> unpack[1], val1 |-> val1.val,
                 val2 |-> val2.val, val3 |-> val3.val])

-----------------------------------------------------------------------------
(* data.py: record codec *)

(* the characters of the field-type tags the model uses *)
TagText(field_type) ==
    CASE field_type = "int1" -> <<"i", "n", "t", "1">>
      [] field_type = "int4" -> <<"i", "n", "t", "4">>
      [] field_type = "uint1" -> <<"u", "i", "n", "t", "1">>
      [] field_type = "uint2" -> <<"u", "i", "n", "t", "2">>
      [] field_type = "len_string" -> <<"l", "e", "n", "_", "s", "t", "r", "i", "n", "g">>
      [] field_type = "null_string" -> <<"n", "u", "l", "l", "_", "s", "t", "r", "i", "n", "g">>
      [] field_type = "guid" -> <<"g", "u", "i", "d">>
      [] field_type = "series_guid" -> <<"s", "e", "r", "i", "e", "s", "_", "g", "u", "i", "d">>
      [] field_type = "float4" -> <<"f", "l", "o", "a", "t", "4">>
      [] field_type = "interval" -> <<"i", "n", "t", "e", "r", "v", "a", "l">>

(* field_type.startswith(prefix) *)
StartsWith(field_type, prefix) ==
    LET s == TagText(field_type)
    IN  Len(s) >= Len(prefix) /\ SubSeq(s, 1, Len(prefix)) = prefix

(* int(field_type[-1]) *)
Width(field_type) ==
    LET s == TagText(field_type)
        c == s[Len(s)]
    IN  CASE c = "1" -> Ok(1)
          [] c = "2" -> Ok(2)
          [] c = "4" -> Ok(4)
          [] c = "8" -> Ok(8)
          [] OTHER -> Raise("ValueError")

(* the if/elif chain of read_record: the branch taken, "none" when no test matches *)
ReadBranch(field_type) ==
    IF StartsWith(field_type, <<"i", "n", "t">>) THEN "int"
    ELSE IF StartsWith(field_type, <<"u", "i", "n", "t">>) THEN "uint"
    ELSE IF field_type \in {"len_string"} THEN "len_string"
    ELSE IF field_type \in {"null_string"} THEN "null_string"
    ELSE IF field_type \in {"guid"} THEN "guid"
    ELSE IF field_type \in {"series_guid"} THEN "series_guid"
    ELSE "none"

(* the if/elif chain of write_record *)
WriteBranch(field_type) ==
    IF StartsWith(field_type, <<"i", "n", "t">>) THEN "int"
    ELSE IF StartsWith(field_type, <<"u", "i", "n", "t">>) THEN "uint"
    ELSE IF field_type \in {"len_string"} THEN "len_string"
    ELSE IF field_type \in {"null_string"} THEN "null_string"
    ELSE IF field_type \in {"guid"} THEN "guid"
    ELSE IF field_type \in {"series_guid"} THEN "series_guid"
    ELSE "none"

(* the field names of a schema, by position, and their text *)
FieldNames == <<"a", "b", "c", "d">>

NameText(field) ==
    CASE field = "a" -> <<97>>
      [] field = "b" -> <<98>>
      [] field = "c" -> <<99>>
      [] field = "d" -> <<100>>

EmptyDict == [f \in {} |-> NoneV]

(* d[k] = v *)
DictSet(d, k, v) == [f \in DOMAIN d \cup {k} |-> IF f = k THEN v ELSE d[f]]

(* write_record: the string, GUID and series branches pass the field name *)
WriteValue(field, field_type, rec) ==
    LET b == WriteBranch(field_type)
        w == Width(field_type)
    IN  IF b \in {"int", "uint"}
        THEN IF field \notin DOMAIN rec THEN Raise("KeyError")
             ELSE IF w.err # "" THEN w
             ELSE write_int(rec[field], w.val, b = "int")
        ELSE IF b = "len_string" THEN write_string_length(StrV(NameText(field)))
        ELSE IF b = "null_string" THEN write_string_null_term(StrV(NameText(field)))
        ELSE IF b = "guid" THEN write_guid_bytes(StrV(NameText(field)))
        ELSE IF b = "series_guid" THEN write_series_bytes(StrV(NameText(field)))
        ELSE Ok(<<>>)

RECURSIVE WriteFields(_, _, _)
WriteFields(defn, i, rec) ==
    IF i > Len(defn) THEN Ok(<<>>)
    ELSE LET b == WriteValue(defn[i][1], defn[i][2], rec)
             rest == WriteFields(defn, i + 1, rec)
         IN  IF b.err # "" THEN b
             ELSE IF rest.err # "" THEN rest
             ELSE Ok(b.val \o rest.val)

write_record(defn, rec) == WriteFields(defn, 1, rec)

(* read_record, one iteration for a field that is not a null_string:        *)
(* val is the value stored in the record, pos the cursor afterwards         *)
ReadValue(field_type, buf, p) ==
    LET b == ReadBranch(field_type)
        w == Width(field_type)
    IN  IF b \in {"int", "uint"}
        THEN IF w.err # "" THEN RaiseAt(w.err, p)
             ELSE OkAt(IntV(read_int(Read(buf, p, w.val), b = "int")), Tell(buf, p, w.val))
        ELSE IF b = "len_string"
        THEN LET r == read_string_length(buf, p)
             IN  IF r.err # "" THEN r ELSE OkAt(StrV(r.val), r.pos)
        ELSE IF b = "guid"
        THEN LET g == read_guid_bytes(Read(buf, p, 8))
             IN  IF g.err # "" THEN RaiseAt(g.err, Tell(buf, p, 8))
                 ELSE OkAt(g.val, Tell(buf, p, 8))
        ELSE OkAt(StrV(read_series_bytes(Read(buf, p, 4))), Tell(buf, p, 4))

(* read_string_null_term: buffer.seek(offset + self._start_pos) *)
SeekTarget(offset, start) == offset + start

-----------------------------------------------------------------------------
(* Inputs of the calls *)

Headers == {StringTBL_header, StageVoiceTable_header}

StrAlphabet == {65, 233}
Strings == SeqsUpTo(StrAlphabet, MaxStrLen)
LongStrings == {Repeat(65, 255), Repeat(65, 256), Repeat(233, 128), Repeat(233, 255)}

IndexVals == {-1, 1, 258}
TblRecords == [index : IndexVals, string : Strings]
TblInputs == SeqsUpTo(TblRecords, MaxRecords)

(* voice-cue strings: up to MaxParts parts joined by "," *)
VoiceParts == {<<>>, <<118>>, <<49>>, <<49, 50>>}

RECURSIVE Join(_)
Join(parts) ==
    IF Len(parts) = 1 THEN parts[1] ELSE parts[1] \o <<44>> \o Join(Tail(parts))

VoiceStrings == {Join(parts) : parts \in UNION {[1..k -> VoiceParts] : k \in 1..MaxParts}}

(* 8-byte GUID inputs, field by field *)
GuidBytes ==
    {ToBytesLE(series, 2) \o <<gundam, reserved, unit_type, spec>> \o ToBytesLE(model, 2) :
        series \in {0, 1, 9999, 10000, 65535}, gundam \in {0, 71, 200},
        reserved \in {0, 1}, unit_type \in {0, 85, 200},
        spec \in {0, 7, 99, 100, 255}, model \in {0, 1, 999, 1000}}

FieldTypes == {"int1", "int4", "uint1", "uint2", "len_string", "null_string",
               "guid", "series_guid", "float4", "interval"}

Schemas ==
    UNION {{[i \in 1..k |-> <<FieldNames[i], tags[i]>>] : tags \in [1..k -> FieldTypes]} :
               k \in 0..MaxFields}

(* values a record holds for a field of the given type *)
FieldValues(field_type) ==
    CASE field_type = "int1" -> {IntV(-1), IntV(127), IntV(128)}
      [] field_type = "int4" -> {IntV(-2), IntV(70000)}
      [] field_type = "uint1" -> {IntV(0), IntV(255)}
      [] field_type = "uint2" -> {IntV(258), IntV(-1)}
      [] field_type \in {"len_string", "null_string"} ->
             {StrV(<<>>), StrV(<<65>>), StrV(<<97>>), StrV(<<233>>)}
      [] field_type = "guid" ->
             {NoneV, StrV(<<71, 48, 48, 48, 49, 85, 48, 48, 49, 48, 48>>)}
      [] field_type = "series_guid" -> {StrV(<<71, 48, 48, 48, 49>>)}
      [] OTHER -> {IntV(0)}

RECURSIVE ValueSeqs(_, _)
ValueSeqs(defn, i) ==
    IF i > Len(defn) THEN {<<>>}
    ELSE {<<v>> \o rest : v \in FieldValues(defn[i][2]), rest \in ValueSeqs(defn, i + 1)}

(* the records that have a value of its type for every field of the schema *)
RecordsFor(defn) ==
    {[f \in {defn[i][1] : i \in DOMAIN defn} |->
         vs[CHOOSE i \in DOMAIN defn : defn[i][1] = f]] : vs \in ValueSeqs(defn, 1)}

ByteAlphabet == {0, 1, 65}
Bodies ==
    SeqsUpTo(ByteAlphabet, MaxBuf)
        \cup {<<1, 200>>, <<1, 0, 71, 0>>, <<1, 0, 71, 0, 85, 0, 1, 0>>, Zeros(8)}

-----------------------------------------------------------------------------
(* The object after __init__ and a BinaryIO not yet opened *)

Unset == <<-1>>

Init ==
    /\ pc = "idle"
    /\ op = "__init__"
    /\ arg = <<>>
    /\ ret = Ok(<<>>)
    /\ header \in Headers
    /\ start_pos = 0
    /\ buffer = <<>>
    /\ pos = 0
    /\ definition = <<>>
    /\ fi = 0
    /\ record = EmptyDict
    /\ all_bytes = <<>>
    /\ char = Unset

readerVars == <<definition, fi, record, all_bytes, char>>
ioVars == <<start_pos, buffer, pos>>

-----------------------------------------------------------------------------
(* String table calls *)

(* the loop of StageVoiceTable._read over the records of StringTBL._read *)
RECURSIVE UnpackAll(_)
UnpackAll(records) ==
    IF records = <<>> THEN Ok(<<>>)
    ELSE LET u == StageVoiceUnpack(Head(records).string)
             rest == UnpackAll(Tail(records))
         IN  IF u.err # "" THEN u
             ELSE IF rest.err # "" THEN rest
             ELSE Ok(<<[index |-> Head(records).index, string |-> Head(records).string,
                        voice_id |-> u.val.voice_id, val1 |-> u.val.val1,
                        val2 |-> u.val.val2, val3 |-> u.val.val3]>> \o rest.val)

StageVoiceTable_read(hdr, buf) ==
    LET records == StringTBL_read(hdr, buf)
    IN  IF records.err # "" THEN records ELSE UnpackAll(records.val)

(* self._write(records) *)
TblWrite(records) ==
    /\ pc = "idle"
    /\ pc' = "ret"
    /\ op' = "_write"
    /\ arg' = records
    /\ ret' = StringTBL_write(header, records)
    /\ UNCHANGED <<header, ioVars, readerVars>>

(* self._read(io.BytesIO(b)) on the bytes b that _write returned *)
TblRead ==
    /\ pc = "ret" /\ op = "_write" /\ ret.err = ""
    /\ pc' = "ret"
    /\ op' = "_read"
    /\ buffer' = ret.val
    /\ start_pos' = 0
    /\ pos' = Min(Len(header) + record_count_length + 8 * Len(arg), Len(ret.val))
    /\ ret' = IF header = StageVoiceTable_header
              THEN StageVoiceTable_read(header, ret.val)
              ELSE StringTBL_read(header, ret.val)
    /\ UNCHANGED <<arg, header, readerVars>>

(* one iteration of the loop of StageVoiceTable._read, for a record with the *)
(* given string                                                            *)
VoiceUnpack(string) ==
    /\ pc = "idle" /\ header = StageVoiceTable_header
    /\ pc' = "ret"
    /\ op' = "unpack"
    /\ arg' = string
    /\ ret' = StageVoiceUnpack(string)
    /\ UNCHANGED <<header, ioVars, readerVars>>

NextTbl ==
    \/ pc = "idle" /\ \E records \in TblInputs : TblWrite(records)
    \/ TblRead
    \/ pc = "idle" /\ \E string \in VoiceStrings : VoiceUnpack(string)

SpecTbl == Init /\ [][NextTbl]_vars

-----------------------------------------------------------------------------
(* Claims about the string table *)

(* number of bytes the strings of records i.. take in the blob *)
RECURSIVE BlobLen(_, _)
BlobLen(records, i) ==
    IF i > Len(records) THEN 0
    ELSE Len(Utf8Encode(records[i].string)) + 1 + BlobLen(records, i + 1)

(* offset in out, from its first byte, of the string of record i: the blob  *)
(* is the end of the output                                                 *)
StringOffset(out, records, i) == Len(out) - BlobLen(records, i)

(* the pointer written in index entry i (1-based) of out *)
PointerAt(out, i) == FromBytesLE(SubSeq(out, 12 + 8 * (i - 1) + 5, 12 + 8 * (i - 1) + 8))

Written == pc = "ret" /\ op = "_write" /\ ret.err = ""

(* C1: decoding the bytes the string-table encoder produced returns the     *)
(* (index, string) pairs of the input list, in the order of the input list  *)
C1_RoundTrip ==
    (pc = "ret" /\ op = "_read" /\ header = StringTBL_header) =>
        /\ ret.err = ""
        /\ Len(ret.val) = Len(arg)
        /\ \A i \in 1..Len(arg) :
               ret.val[i].index = arg[i].index /\ ret.val[i].string = arg[i].string

(* C2: in the encoder's output the pointer of index entry i is the offset,  *)
(* from the first byte of the output, at which the UTF-8 bytes of record    *)
(* i's string begin                                                         *)
C2_PointerIsOffset ==
    Written =>
        \A i \in 1..Len(arg) :
            LET off == StringOffset(ret.val, arg, i)
                bytes == Utf8Encode(arg[i].string)
            IN  /\ PointerAt(ret.val, i) = off
                /\ SubSeq(ret.val, off + 1, off + Len(bytes) + 1) = bytes \o <<0>>

C2_Witness ==
    /\ Written
    /\ Len(arg) = 2
    /\ arg[1].string = <<233>>
    /\ arg[2].string = <<65, 233>>
    /\ PointerAt(ret.val, 2) = 35

(* C3: for a non-empty table the first string lies at an offset that is at  *)
(* least 12 + count*8 and a multiple of 16, and the padding between the     *)
(* index entries and the blob is 1 to 16 bytes (16 when 12 + count*8 is a   *)
(* multiple of 16), all 0x00                                                *)
C3_Padding ==
    (Written /\ Len(arg) > 0) =>
        LET count == Len(arg)
            first == StringOffset(ret.val, arg, 1)
            padding == first - (12 + count * 8)
        IN  /\ first >= 12 + count * 8
            /\ first % 16 = 0
            /\ PointerAt(ret.val, 1) = first
            /\ padding \in 1..16
            /\ ((12 + count * 8) % 16 = 0 => padding = 16)
            /\ \A k \in (12 + count * 8 + 1)..first : ret.val[k] = 0

C3_Witness ==
    /\ Written
    /\ Len(arg) = 1
    /\ arg[1].string = <<65>>
    /\ StringOffset(ret.val, arg, 1) = 32
    /\ SubSeq(ret.val, 21, 34) = Zeros(12) \o <<65, 0>>

(* number of "," in s *)
RECURSIVE Commas(_)
Commas(s) == IF s = <<>> THEN 0 ELSE (IF Head(s) = 44 THEN 1 ELSE 0) + Commas(Tail(s))

(* the part of s before its first "," *)
RECURSIVE FirstPart(_)
FirstPart(s) == IF s = <<>> \/ Head(s) = 44 THEN <<>> ELSE <<Head(s)>> \o FirstPart(Tail(s))

-----------------------------------------------------------------------------
(* Primitive codec calls *)

(* read_guid_bytes(byte_string) *)
ReadGuid(byte_string) ==
    /\ pc = "idle"
    /\ pc' = "ret"
    /\ op' = "read_guid_bytes"
    /\ arg' = [byte_string |-> byte_string, unit_string |-> NoneV]
    /\ ret' = read_guid_bytes(byte_string)
    /\ UNCHANGED <<header, ioVars, readerVars>>

(* write_guid_bytes(unit_string) on the value read_guid_bytes returned *)
WriteGuid ==
    /\ pc = "ret" /\ op = "read_guid_bytes" /\ ret.err = ""
    /\ pc' = "ret"
    /\ op' = "write_guid_bytes"
    /\ arg' = [arg EXCEPT !.unit_string = ret.val]
    /\ ret' = write_guid_bytes(ret.val)
    /\ UNCHANGED <<header, ioVars, readerVars>>

(* write_string_length(string) *)
WriteStringLength(string) ==
    /\ pc = "idle"
    /\ pc' = "ret"
    /\ op' = "write_string_length"
    /\ arg' = string
    /\ ret' = write_string_length(StrV(string))
    /\ UNCHANGED <<header, ioVars, readerVars>>

(* read_string_length(io.BytesIO(b)) on the bytes b that write_string_length returned *)
ReadStringLength ==
    /\ pc = "ret" /\ op = "write_string_length" /\ ret.err = ""
    /\ pc' = "ret"
    /\ op' = "read_string_length"
    /\ buffer' = ret.val
    /\ pos' = read_string_length(ret.val, 0).pos
    /\ ret' = read_string_length(ret.val, 0)
    /\ UNCHANGED <<arg, header, start_pos, readerVars>>

NextPrim ==
    \/ pc = "idle" /\ \E byte_string \in GuidBytes : ReadGuid(byte_string)
    \/ WriteGuid
    \/ pc = "idle" /\ \E string \in Strings \cup LongStrings : WriteStringLength(string)
    \/ ReadStringLength

SpecPrim == Init /\ [][NextPrim]_vars

-----------------------------------------------------------------------------
(* Claims about the primitive codec *)

GuidRoundTripped == pc = "ret" /\ op = "write_guid_bytes"

(* the fields of an 8-byte GUID are those of a well-formed identifier:      *)
(* series at most 4 digits, model at most 3, spec at most 2, both letters   *)
(* one UTF-8 byte                                                           *)
GuidInRange(b) ==
    /\ FromBytesLE(SubSeq(b, 1, 2)) <= 9999
    /\ b[3] < 128
    /\ b[5] < 128
    /\ b[6] <= 99
    /\ FromBytesLE(SubSeq(b, 7, 8)) <= 999

(* C4 as stated: for every 8-byte input whose reserved byte[3] is 0x00,     *)
(* decode_guid then encode_guid reproduces the 8 bytes                      *)
C4_RoundTripEveryInput ==
    (GuidRoundTripped /\ arg.byte_string[4] = 0) =>
        ret.err = "" /\ ret.val = arg.byte_string

(* C4 amended: for every 8-byte input with the fields of a well-formed      *)
(* identifier (series <= 9999, model <= 999, spec <= 99, letter bytes below *)
(* 0x80), decode_guid then encode_guid returns the input with byte[3]       *)
(* written as 0x00, hence the original 8 bytes when byte[3] is 0x00; the    *)
(* all-zero input, and only it, decodes to None, and encodes back to 8 zero *)
(* bytes                                                                    *)
C4_RoundTripInRange ==
    GuidRoundTripped =>
        /\ (arg.unit_string = NoneV) <=> (arg.byte_string = Zeros(8))
        /\ GuidInRange(arg.byte_string) =>
               /\ ret.err = ""
               /\ ret.val = [arg.byte_string EXCEPT ![4] = 0]
               /\ arg.byte_string[4] = 0 => ret.val = arg.byte_string

C4_Witness ==
    /\ GuidRoundTripped
    /\ arg.byte_string = <<1, 0, 71, 0, 85, 7, 1, 0>>
    /\ arg.unit_string = StrV(<<71, 48, 48, 48, 49, 85, 48, 48, 49, 48, 55>>)
    /\ ret = Ok(<<1, 0, 71, 0, 85, 7, 1, 0>>)

(* C9: encode_length_string writes the UTF-8 byte length as first byte,     *)
(* followed by exactly that many bytes, and fails when the byte length      *)
(* exceeds 255; decode_length_string of the output returns the string and   *)
(* consumes exactly the bytes written                                       *)
C9_LengthString ==
    /\ (pc = "ret" /\ op = "write_string_length") =>
           /\ ret.err = "" =>
                  /\ ret.val[1] = Len(Utf8Encode(arg))
                  /\ Len(ret.val) = 1 + Len(Utf8Encode(arg))
           /\ Len(Utf8Encode(arg)) > 255 => ret.err # ""
    /\ (pc = "ret" /\ op = "read_string_length") =>
           ret.err = "" /\ ret.val = arg /\ ret.pos = Len(buffer)

-----------------------------------------------------------------------------
(* Record codec calls *)

(* read_header(buffer) on a buffer positioned at p0, just before a header   *)
ReadHeader(p0, hdr, body) ==
    LET buf == Zeros(p0) \o hdr \o <<1, 0, 0, 0>> \o body
        r == read_header(header, buf, p0)
    IN  /\ pc = "idle"
        /\ pc' = "ret"
        /\ op' = "read_header"
        /\ arg' = <<>>
        /\ buffer' = buf
        /\ start_pos' = p0
        /\ pos' = r.pos
        /\ ret' = r
        /\ UNCHANGED <<header, readerVars>>

(* write_record(definition, record) *)
WriteRecord(defn, rec) ==
    /\ pc = "idle"
    /\ pc' = "ret"
    /\ op' = "write_record"
    /\ arg' = [definition |-> defn, record |-> rec, roundtrip |-> TRUE]
    /\ ret' = write_record(defn, rec)
    /\ UNCHANGED <<header, ioVars, readerVars>>

(* entry of read_record(definition, buffer) *)
BeginReadRecord(defn, buf, p, a) ==
    /\ pc' = "fields"
    /\ op' = "read_record"
    /\ arg' = a
    /\ ret' = Ok(<<>>)
    /\ buffer' = buf
    /\ pos' = p
    /\ definition' = defn
    /\ fi' = 0
    /\ record' = EmptyDict
    /\ UNCHANGED <<header, start_pos, all_bytes, char>>

NoRoundTrip(defn) == [definition |-> defn, record |-> EmptyDict, roundtrip |-> FALSE]

(* read_record on a fresh buffer *)
ReadRecordCall(defn, buf) ==
    /\ pc = "idle"
    /\ BeginReadRecord(defn, buf, 0, NoRoundTrip(defn))

(* read_record on the buffer whose header read_header has read *)
ReadRecordAfterHeader(defn) ==
    /\ pc = "ret" /\ op = "read_header" /\ ret.err = ""
    /\ BeginReadRecord(defn, buffer, pos, NoRoundTrip(defn))

(* read_record on the bytes write_record returned, under the same schema *)
ReadRecordBack ==
    /\ pc = "ret" /\ op = "write_record" /\ ret.err = ""
    /\ BeginReadRecord(arg.definition, ret.val, 0, arg)

Field == definition[fi + 1][1]
FieldType == definition[fi + 1][2]

(* one iteration of the loop of read_record: an int, uint, len_string, guid *)
(* or series_guid field                                                     *)
ReadField ==
    /\ pc = "fields" /\ fi < Len(definition)
    /\ ReadBranch(FieldType) \notin {"null_string", "none"}
    /\ LET r == ReadValue(FieldType, buffer, pos)
       IN  /\ pos' = r.pos
           /\ IF r.err # ""
              THEN /\ pc' = "ret"
                   /\ ret' = Raise(r.err)
                   /\ UNCHANGED <<fi, record>>
              ELSE /\ record' = DictSet(record, Field, r.val)
                   /\ fi' = fi + 1
                   /\ UNCHANGED <<pc, ret>>
    /\ UNCHANGED <<op, arg, header, start_pos, buffer, definition, all_bytes, char>>

(* one iteration of the loop of read_record: no test of the chain matches *)
ReadFieldNoBranch ==
    /\ pc = "fields" /\ fi < Len(definition)
    /\ ReadBranch(FieldType) = "none"
    /\ fi' = fi + 1
    /\ UNCHANGED <<pc, op, arg, ret, header, ioVars, definition, record, all_bytes, char>>

(* read_record calls read_string_null_term(buffer, offset=0): up to the seek *)
ReadFieldNullString ==
    /\ pc = "fields" /\ fi < Len(definition)
    /\ ReadBranch(FieldType) = "null_string"
    /\ pc' = "null_term"
    /\ all_bytes' = <<>>
    /\ char' = Unset
    /\ pos' = SeekTarget(0, start_pos)
    /\ UNCHANGED <<op, arg, ret, header, start_pos, buffer, definition, fi, record>>

(* read_string_null_term(buffer, offset) called on its own: up to the seek *)
ReadStringNullTermCall(buf, offset) ==
    /\ pc = "idle"
    /\ pc' = "null_term"
    /\ op' = "read_string_null_term"
    /\ arg' = offset
    /\ buffer' = buf
    /\ all_bytes' = <<>>
    /\ char' = Unset
    /\ pos' = SeekTarget(offset, start_pos)
    /\ UNCHANGED <<ret, header, start_pos, definition, fi, record>>

(* one iteration of the while loop of read_string_null_term; on the break,  *)
(* the decode and the return to the caller                                  *)
NullTermRead ==
    /\ pc = "null_term"
    /\ char' = Read(buffer, pos, 1)
    /\ pos' = Tell(buffer, pos, 1)
    /\ IF char' = <<0>>
       THEN LET output_string == Utf8Decode(all_bytes)
            IN  IF output_string.err # ""
                THEN /\ pc' = "ret"
                     /\ ret' = output_string
                     /\ UNCHANGED <<fi, record, all_bytes>>
                ELSE IF op = "read_record"
                THEN /\ pc' = "fields"
                     /\ record' = DictSet(record, Field, StrV(output_string.val))
                     /\ fi' = fi + 1
                     /\ UNCHANGED <<ret, all_bytes>>
                ELSE /\ pc' = "ret"
                     /\ ret' = output_string
                     /\ UNCHANGED <<fi, record, all_bytes>>
       ELSE /\ all_bytes' = all_bytes \o char'
            /\ UNCHANGED <<pc, ret, fi, record>>
    /\ UNCHANGED <<op, arg, header, start_pos, buffer, definition>>

(* return record *)
ReadRecordReturn ==
    /\ pc = "fields" /\ fi = Len(definition)
    /\ pc' = "ret"
    /\ ret' = Ok(record)
    /\ UNCHANGED <<op, arg, header, ioVars, readerVars>>

NextRecord ==
    \/ pc = "idle" /\ \E p0 \in 0..1, hdr \in Headers, body \in Bodies :
                          ReadHeader(p0, hdr, body)
    \/ pc = "idle" /\ \E defn \in Schemas : \E rec \in RecordsFor(defn) :
                          WriteRecord(defn, rec)
    \/ pc = "idle" /\ \E defn \in Schemas, buf \in Bodies : ReadRecordCall(defn, buf)
    \/ pc = "ret" /\ \E defn \in Schemas : ReadRecordAfterHeader(defn)
    \/ ReadRecordBack
    \/ ReadField
    \/ ReadFieldNoBranch
    \/ ReadFieldNullString
    \/ pc = "idle" /\ \E buf \in Bodies, offset \in 0..1 :
                          ReadStringNullTermCall(buf, offset)
    \/ NullTermRead
    \/ ReadRecordReturn

SpecRecord == Init /\ [][NextRecord]_vars

Next == NextTbl \/ NextPrim \/ NextRecord

Spec == Init /\ [][Next]_vars

-----------------------------------------------------------------------------
(* Claims about the record codec *)

KnownTags == {"int1", "int2", "int4", "int8", "uint1", "uint2", "uint4", "uint8",
              "len_string", "null_string", "guid", "series_guid"}

AllKnown(defn) == \A i \in DOMAIN defn : defn[i][2] \in KnownTags

(* the value is one the field type can hold *)
ValidValue(field_type, v) ==
    CASE field_type = "int1" -> v.n \in -128..127
      [] field_type = "uint1" -> v.n \in 0..255
      [] field_type = "uint2" -> v.n \in 0..65535
      [] OTHER -> TRUE

ValidRecord(defn, rec) == \A i \in DOMAIN defn : ValidValue(defn[i][2], rec[defn[i][1]])

(* C5: encode_record encodes, for every field of the schema, the value      *)
(* record[name], so encoding a record of valid values succeeds and          *)
(* decode_record of the bytes under the same schema returns the record      *)
C5_RecordRoundTrip ==
    /\ (pc = "ret" /\ op = "write_record" /\ AllKnown(arg.definition)
            /\ ValidRecord(arg.definition, arg.record)) => ret.err = ""
    /\ (pc = "ret" /\ op = "read_record" /\ arg.roundtrip /\ AllKnown(arg.definition)) =>
           ret.err = "" /\ ret.val = arg.record

(* C6: when a read of decode_null_string finds the end of the buffer (it    *)
(* returns no byte), the decode has stopped with a failure                  *)
C6_StopsAtEndOfBuffer == char = <<>> => (pc = "ret" /\ ret.err # "")

(* C7: with a field type outside the known tags decode_record and           *)
(* encode_record fail, and a returned record has a key for every field of   *)
(* the schema                                                               *)
C7_UnknownTagFails ==
    /\ (pc = "ret" /\ op \in {"read_record", "write_record"}
            /\ ~AllKnown(arg.definition)) => ret.err # ""
    /\ (pc = "ret" /\ op = "read_record" /\ ret.err = "") =>
           DOMAIN ret.val = {definition[i][1] : i \in DOMAIN definition}

(* C10: decode_record reads a null_string field from the cursor position    *)
(* where the previous field ended                                           *)
C10_NullStringAtCursor == [][(pc = "fields" /\ pc' = "null_term") => pos' = pos]_vars

=============================================================================
